---- MODULE Spec2Model ----
(***************************************************************************)
(* Model of volttron/platform/dbutils/mysqlfuncts.py: the MySQL driver of  *)
(* the SQL historian (class MySqlFuncts).                                  *)
(*                                                                         *)
(* Text (version strings, ISO timestamps, SQL) is a sequence of one        *)
(* character strings.  Time is counted in tenths of the second field of a  *)
(* timestamp: the tick 15 is second 1 and fraction .5 .  In a text the     *)
(* whole 'YYYY-MM-DDTHH:MM:SS' field is written as one digit and the       *)
(* fraction, when there is one, as '.' and one digit.                      *)
(***************************************************************************)
EXTENDS Integers, Sequences, FiniteSets, Bags, TLC

VARIABLES
    version,              \* text the backend answers to SELECT version()
    MICROSECOND_SUPPORT,  \* self.MICROSECOND_SUPPORT: "None", "True", "False"
    tables,               \* names of the tables that exist in the database
    dataPrecise,          \* the ts column of the data table is timestamp(6)
    meta_table,           \* self.meta_table
    topicsMetadataCol,    \* the topics table has a metadata column
    op,                   \* the last schema operation: name, statements, error
    aggCalls,             \* calls of setup_aggregate_historian_tables so far
    data,                 \* the rows of the data table, a bag
    metadata,             \* the rows (topic_id, metadata) of the meta table
    pc,                   \* the bulk_insert scope: "idle" or "body"
    records,              \* records of the open bulk_insert scope
    mpc,                  \* the bulk_insert_meta scope: "idle" or "body"
    meta,                 \* meta of the open bulk_insert_meta scope
    scopeEnd,             \* how the last batch scope was left
    hist,                 \* history: the last value flushed for each stored key
    req,                  \* the arguments of query and collect_aggregate
    qres,                 \* what the last query returned or raised
    cres,                 \* what the last collect_aggregate returned or raised
    topic_pattern,        \* the argument of query_topics_by_pattern
    q                     \* the statement query_topics_by_pattern has sent

schemaVars == <<version, MICROSECOND_SUPPORT, tables, dataPrecise, meta_table,
                topicsMetadataCol, op, aggCalls>>

writerVars == <<data, metadata, pc, records, mpc, meta, scopeEnd, hist>>

queryVars == <<req, qres, cres>>

patternVars == <<topic_pattern, q>>

vars == <<schemaVars, writerVars, queryVars, patternVars>>

(***************************************************************************)
(* Text helpers                                                            *)
(***************************************************************************)
Digits == <<"0", "1", "2", "3", "4", "5", "6", "7", "8", "9">>

IsDigit(c) == \E i \in 1..10 : Digits[i] = c

DigitVal(c) == CHOOSE i \in 0..9 : Digits[i + 1] = c

\* int(text) of a run of digits
RECURSIVE ToInt(_)
ToInt(s) ==
    IF s = <<>> THEN 0
    ELSE 10 * ToInt(SubSeq(s, 1, Len(s) - 1)) + DigitVal(s[Len(s)])

\* str(n) of a natural number
RECURSIVE ToText(_)
ToText(n) ==
    IF n < 10 THEN <<Digits[n + 1]>>
    ELSE ToText(n \div 10) \o <<Digits[(n % 10) + 1]>>

\* number of characters from position i on that are (isDigit) digits
RECURSIVE Run(_, _, _)
Run(s, i, isDigit) ==
    IF i > Len(s) \/ IsDigit(s[i]) # isDigit THEN 0
    ELSE 1 + Run(s, i + 1, isDigit)

(***************************************************************************)
(* Capability probe                                                        *)
(***************************************************************************)
\* re.compile('(\d+)\D+(\d+)\D+(\d+)\D*').match(text).groups(), or <<>>
\* when the text does not match (match returns None)
VersionGroups(s) ==
    LET n1 == Run(s, 1, TRUE)
        m1 == Run(s, 1 + n1, FALSE)
        b2 == 1 + n1 + m1
        n2 == Run(s, b2, TRUE)
        m2 == Run(s, b2 + n2, FALSE)
        b3 == b2 + n2 + m2
        n3 == Run(s, b3, TRUE)
    IN  IF n1 > 0 /\ m1 > 0 /\ n2 > 0 /\ m2 > 0 /\ n3 > 0
        THEN <<SubSeq(s, 1, n1), SubSeq(s, b2, b2 + n2 - 1),
               SubSeq(s, b3, b3 + n3 - 1)>>
        ELSE <<>>

\* the decision of init_microsecond_support on the three version numbers
MicrosecondPatchTooOld_le(patch) == patch <= 4

MicrosecondPatchTooOld(patch) == patch < 4

MicrosecondDecision(major, minor, patch) ==
    IF major < 5 THEN "False"
    ELSE IF major = 5
         THEN IF minor < 6 THEN "False"
              ELSE IF minor = 6
                   THEN IF MicrosecondPatchTooOld(patch) THEN "False"
                        ELSE "True"
                   ELSE "True"
         ELSE "True"

\* the value init_microsecond_support leaves in self.MICROSECOND_SUPPORT;
\* "None" when p.match() is None and .groups() raises AttributeError
ProbeFlag(s) ==
    LET g == VersionGroups(s)
    IN  IF g = <<>> THEN "None"
        ELSE MicrosecondDecision(ToInt(g[1]), ToInt(g[2]), ToInt(g[3]))

ProbeError(s) == IF VersionGroups(s) = <<>> THEN "AttributeError" ELSE ""

\* the flag after the lazy 'if self.MICROSECOND_SUPPORT is None: init...'
LazyFlag == IF MICROSECOND_SUPPORT = "None" THEN ProbeFlag(version)
            ELSE MICROSECOND_SUPPORT

LazyError == IF MICROSECOND_SUPPORT = "None" THEN ProbeError(version) ELSE ""

NoOp == [name |-> "none", stmts |-> <<>>, raised |-> "", before |-> {}]

init_microsecond_support ==
    /\ MICROSECOND_SUPPORT' = ProbeFlag(version)
    /\ op' = [name |-> "init_microsecond_support", stmts |-> <<>>,
              raised |-> ProbeError(version), before |-> tables]
    /\ UNCHANGED <<patternVars, version, tables, dataPrecise, meta_table,
                   topicsMetadataCol, aggCalls, writerVars, queryVars>>

(***************************************************************************)
(* Schema manager                                                          *)
(***************************************************************************)
\* the table names of the configuration (table_names of __init__)
data_table == <<"data">>
topics_table == <<"topics">>
legacy_meta_table == <<"meta">>
agg_topics_table == <<"aggregate_topics">>
agg_meta_table == <<"aggregate_meta">>

\* a CREATE TABLE statement; col is the type of its ts column, if any
CreateTable(name, col) == [verb |-> "CREATE TABLE", table |-> name, col |-> col]

TsColumn(flag) == IF flag = "True" THEN "timestamp(6)" ELSE "timestamp"

\* the names of the tables a list of statements creates
Created(stmts) ==
    {stmts[i].table :
        i \in {j \in 1..Len(stmts) : stmts[j].verb = "CREATE TABLE"}}

setup_historian_tables ==
    LET flag == LazyFlag
        create == <<CreateTable(data_table, TsColumn(flag)),
                    [verb |-> "CREATE INDEX", table |-> data_table, col |-> ""],
                    CreateTable(topics_table, "")>>
    IN
    /\ MICROSECOND_SUPPORT' = flag
    /\ IF LazyError # ""
       THEN /\ op' = [name |-> "setup_historian_tables", stmts |-> <<>>,
                      raised |-> LazyError, before |-> tables]
            /\ UNCHANGED <<patternVars, tables, dataPrecise, meta_table,
                           topicsMetadataCol>>
       ELSE IF data_table \in tables
       THEN /\ meta_table' = IF topics_table \in tables /\ topicsMetadataCol
                             THEN topics_table ELSE meta_table
            /\ op' = [name |-> "setup_historian_tables", stmts |-> <<>>,
                      raised |-> "", before |-> tables]
            /\ UNCHANGED <<patternVars, tables, dataPrecise, topicsMetadataCol>>
       ELSE IF topics_table \in tables
       THEN \* CREATE TABLE topics fails: MysqlError becomes RuntimeError
            /\ tables' = tables \cup {data_table}
            /\ dataPrecise' = (flag = "True")
            /\ op' = [name |-> "setup_historian_tables", stmts |-> create,
                      raised |-> "RuntimeError", before |-> tables]
            /\ UNCHANGED <<patternVars, meta_table, topicsMetadataCol>>
       ELSE /\ tables' = tables \cup {data_table, topics_table}
            /\ dataPrecise' = (flag = "True")
            /\ topicsMetadataCol' = TRUE
            /\ meta_table' = topics_table
            /\ op' = [name |-> "setup_historian_tables", stmts |-> create,
                      raised |-> "", before |-> tables]
    /\ UNCHANGED <<patternVars, version, aggCalls, writerVars, queryVars>>

MaxAggCalls == 2

\* the statements setup_aggregate_historian_tables issues after its
\* 'show tables like agg_topics_table' found the tables in present
AggregateSchemaStmts(present) ==
    IF agg_topics_table \in present THEN <<>>
    ELSE <<CreateTable(agg_topics_table, ""), CreateTable(agg_meta_table, "")>>

setup_aggregate_historian_tables ==
    LET stmts == AggregateSchemaStmts(tables)
        \* CREATE TABLE of a table that exists raises MysqlError
        fails == stmts # <<>> /\ agg_meta_table \in tables
    IN
    /\ tables' = tables \cup Created(stmts)
    /\ op' = [name |-> "setup_aggregate_historian_tables", stmts |-> stmts,
              raised |-> IF fails THEN "MysqlError" ELSE "", before |-> tables]
    /\ aggCalls' = IF aggCalls < MaxAggCalls THEN aggCalls + 1 ELSE aggCalls
    /\ UNCHANGED <<patternVars, version, MICROSECOND_SUPPORT, dataPrecise,
                   meta_table, topicsMetadataCol, writerVars, queryVars>>

AggTypes == {"AVG", "SUM"}
AggPeriods == {"1h"}

create_aggregate_store(agg_type, agg_time_period) ==
    LET table_name == <<agg_type, "_", agg_time_period>>
        flag == LazyFlag
        stmts == IF table_name \in tables THEN <<>>
                 ELSE <<CreateTable(table_name, TsColumn(flag))>>
    IN
    /\ MICROSECOND_SUPPORT' = flag
    /\ IF LazyError # ""
       THEN /\ op' = [name |-> "create_aggregate_store", stmts |-> <<>>,
                      raised |-> LazyError, before |-> tables]
            /\ UNCHANGED tables
       ELSE /\ tables' = tables \cup Created(stmts)
            /\ op' = [name |-> "create_aggregate_store", stmts |-> stmts,
                      raised |-> "", before |-> tables]
    /\ UNCHANGED <<patternVars, version, dataPrecise, meta_table,
                   topicsMetadataCol, aggCalls, writerVars, queryVars>>

(***************************************************************************)
(* Bulk writer                                                             *)
(***************************************************************************)
Topics == {1, 2}
Values == {1, 2}
WriteTicks == {0, 5}
MetaValues == {7}

MaxBatch == 2
MaxMeta == 1

\* jsonapi.dumps and jsonapi.loads of a natural number
dumps(v) == ToText(v)
loads(s) == ToInt(s)

\* what a ts column keeps of a timestamp: timestamp(6) keeps the fraction,
\* timestamp keeps whole seconds
StoreTs(ts, precise) == IF precise THEN ts ELSE ts - (ts % 10)

SameKey(r, o) == r.topic_id = o.topic_id /\ r.ts = o.ts

\* the statement as INSERT IGNORE: a duplicate key keeps the stored row
Upsert_ignore(table, row) ==
    IF \E r \in BagToSet(table) : SameKey(r, row) THEN table
    ELSE table (+) SetToBag({row})

\* INSERT INTO data (ts, topic_id, value_string) VALUES(%s, %s, %s)
\* ON DUPLICATE KEY UPDATE value_string=VALUES(value_string)
\* of one record, on a table with UNIQUE(topic_id, ts)
Upsert(table, row) ==
    LET old == {r \in BagToSet(table) : SameKey(r, row)}
        keep == [r \in BagToSet(table) \ old |-> table[r]]
    IN  IF old = {} THEN table (+) SetToBag({row})
        ELSE keep (+) SetToBag({[o EXCEPT !.value_string = row.value_string] :
                                    o \in old})

\* self.execute_many(query, records): the statement, record after record
RECURSIVE InsertRows(_, _, _)
InsertRows(table, recs, precise) ==
    IF recs = <<>> THEN table
    ELSE InsertRows(Upsert(table, [ts |-> StoreTs(recs[1][1], precise),
                                   topic_id |-> recs[1][2],
                                   value_string |-> recs[1][3]]),
                    Tail(recs), precise)

\* INSERT INTO meta (topic_id, metadata) VALUES(%s, %s)
\* ON DUPLICATE KEY UPDATE metadata=VALUES(metadata), PRIMARY KEY (topic_id)
UpsertMeta(table, row) ==
    LET old == {r \in BagToSet(table) : r.topic_id = row.topic_id}
    IN  [r \in BagToSet(table) \ old |-> table[r]] (+) SetToBag({row})

RECURSIVE InsertMetaRows(_, _)
InsertMetaRows(table, recs) ==
    IF recs = <<>> THEN table
    ELSE InsertMetaRows(UpsertMeta(table, [topic_id |-> recs[1][1],
                                           metadata |-> recs[1][2]]),
                        Tail(recs))

\* history of the flushed writes: the value last written to each stored
\* key (<<>> when none), and whether a write replaced a different value
RECURSIVE Remember(_, _, _)
Remember(h, recs, precise) ==
    IF recs = <<>> THEN h
    ELSE LET k == <<recs[1][2], StoreTs(recs[1][1], precise)>>
         IN  Remember([last |-> [h.last EXCEPT ![k] = recs[1][3]],
                       over |-> h.over \/ h.last[k] \notin {<<>>, recs[1][3]}],
                      Tail(recs), precise)

NoScope == [scope |-> "none", raised |-> FALSE, flushed |-> FALSE]

\* with db.bulk_insert() as insert_data:  (records = [], then the yield)
bulk_insert_enter ==
    /\ pc = "idle"
    /\ pc' = "body"
    /\ records' = <<>>
    /\ UNCHANGED <<patternVars, schemaVars, queryVars, data, metadata, mpc,
                   meta, scopeEnd, hist>>

\* insert_data(ts, topic_id, data) in the body of the scope
insert_data(ts, topic_id, v) ==
    /\ pc = "body"
    /\ Len(records) < MaxBatch
    /\ records' = Append(records, <<ts, topic_id, dumps(v)>>)
    /\ UNCHANGED <<patternVars, schemaVars, queryVars, data, metadata, pc,
                   mpc, meta, scopeEnd, hist>>

\* the body ends: the generator resumes after the yield and flushes
bulk_insert_exit ==
    /\ pc = "body"
    /\ pc' = "idle"
    /\ data' = IF records # <<>> THEN InsertRows(data, records, dataPrecise)
               ELSE data
    /\ hist' = Remember(hist, records, dataPrecise)
    /\ scopeEnd' = [scope |-> "data", raised |-> FALSE,
                    flushed |-> records # <<>>]
    /\ records' = <<>>
    /\ UNCHANGED <<patternVars, schemaVars, queryVars, metadata, mpc, meta>>

\* the body raises: the exception is thrown into the generator at the yield,
\* which has no try/finally, so nothing after the yield runs
bulk_insert_raise ==
    /\ pc = "body"
    /\ pc' = "idle"
    /\ scopeEnd' = [scope |-> "data", raised |-> TRUE, flushed |-> FALSE]
    /\ records' = <<>>
    /\ UNCHANGED <<patternVars, schemaVars, queryVars, data, metadata, mpc,
                   meta, hist>>

bulk_insert_meta_enter ==
    /\ mpc = "idle"
    /\ mpc' = "body"
    /\ meta' = <<>>
    /\ UNCHANGED <<patternVars, schemaVars, queryVars, data, metadata, pc,
                   records, scopeEnd, hist>>

insert_meta(topic_id, m) ==
    /\ mpc = "body"
    /\ Len(meta) < MaxMeta
    /\ meta' = Append(meta, <<topic_id, dumps(m)>>)
    /\ UNCHANGED <<patternVars, schemaVars, queryVars, data, metadata, pc,
                   records, mpc, scopeEnd, hist>>

bulk_insert_meta_exit ==
    /\ mpc = "body"
    /\ mpc' = "idle"
    /\ metadata' = IF meta # <<>> THEN InsertMetaRows(metadata, meta)
                   ELSE metadata
    /\ scopeEnd' = [scope |-> "meta", raised |-> FALSE, flushed |-> meta # <<>>]
    /\ meta' = <<>>
    /\ UNCHANGED <<patternVars, schemaVars, queryVars, data, pc, records, hist>>

bulk_insert_meta_raise ==
    /\ mpc = "body"
    /\ mpc' = "idle"
    /\ scopeEnd' = [scope |-> "meta", raised |-> TRUE, flushed |-> FALSE]
    /\ meta' = <<>>
    /\ UNCHANGED <<patternVars, schemaVars, queryVars, data, metadata, pc,
                   records, hist>>

(***************************************************************************)
(* Point query engine                                                      *)
(*                                                                         *)
(* An optional argument is a sequence: <<>> is None, <<x>> is x.  A        *)
(* datetime is its wall clock reading in ticks and its UTC offset in       *)
(* seconds; the instant it names is wall - 10 * off.                       *)
(***************************************************************************)
DefaultLimit == 100

\* start.astimezone(pytz.UTC)
astimezone_utc(d) == [wall |-> d.wall - 10 * d.off, off |-> 0]

\* the '+00:00' part of isoformat
OffsetText(off) ==
    IF off < 0 THEN <<"-", "0", Digits[1 - off], ":", "0", "0">>
    ELSE <<"+", "0", Digits[1 + off], ":", "0", "0">>

\* datetime.isoformat(): the fraction is written only when it is not zero
isoformat(d) ==
    <<Digits[(d.wall \div 10) + 1]>>
        \o (IF d.wall % 10 = 0 THEN <<>> ELSE <<".", Digits[(d.wall % 10) + 1]>>)
        \o OffsetText(d.off)

\* str.rfind(c): the last 0-based index of c in s, -1 when there is none
rfind(s, c) ==
    LET at == {i \in 1..Len(s) : s[i] = c}
    IN  IF at = {} THEN -1 ELSE (CHOOSE i \in at : \A j \in at : j <= i) - 1

\* the python slice s[:k]
SliceTo(s, k) ==
    IF k >= 0 THEN SubSeq(s, 1, IF k < Len(s) THEN k ELSE Len(s))
    ELSE SubSeq(s, 1, IF Len(s) + k > 0 THEN Len(s) + k ELSE 0)

\* start_str[:start_str.rfind('.')]
DropFraction(text) == SliceTo(text, rfind(text, "."))

\* a statement parameter: a datetime or a text
DtParam(d) == [kind |-> "datetime", wall |-> d.wall, off |-> d.off, text |-> <<>>]
StrParam(t) == [kind |-> "str", wall |-> 0, off |-> 0, text |-> t]
NoneParam == [kind |-> "None", wall |-> 0, off |-> 0, text |-> <<>>]

\* python truth of a parameter: None and '' are false
Truthy(p) == p.kind = "datetime" \/ (p.kind = "str" /\ p.text # <<>>)

\* start (or end) of query after lines 211-223
QueryBound(b, flag) ==
    IF b = <<>> THEN NoneParam
    ELSE LET d == astimezone_utc(b[1])
         IN  IF flag # "True" THEN StrParam(DropFraction(isoformat(d)))
             ELSE DtParam(d)

\* the timestamp the backend compares the ts column with: the connector
\* sends the wall clock fields of a datetime, and the backend reads the
\* date and time a text starts with and ignores what follows them
SqlTime(p) ==
    IF p.kind = "datetime" THEN p.wall
    ELSE LET n == Run(p.text, 1, TRUE)
             whole == IF n = 0 THEN 0 ELSE ToInt(SubSeq(p.text, 1, n))
             frac == IF /\ Len(p.text) >= n + 2
                        /\ p.text[n + 1] = "."
                        /\ IsDigit(p.text[n + 2])
                     THEN DigitVal(p.text[n + 2]) ELSE 0
         IN  10 * whole + frac

\* the end of the window taken as inclusive
TsFilter_inclusive(ts, start, end) ==
    IF Truthy(start) /\ Truthy(end) /\ start = end
    THEN ts = SqlTime(start)
    ELSE /\ Truthy(start) => ts >= SqlTime(start)
         /\ Truthy(end) => ts <= SqlTime(end)

\* the ts clauses of the WHERE statement, lines 225-234
TsFilter(ts, start, end) ==
    IF Truthy(start) /\ Truthy(end) /\ start = end
    THEN ts = SqlTime(start)
    ELSE /\ Truthy(start) => ts >= SqlTime(start)
         /\ Truthy(end) => ts < SqlTime(end)

\* the rows of a bag, each as often as the bag holds it, ordered by ts
RECURSIVE OrderByTs(_, _)
OrderByTs(bag, desc) ==
    IF BagToSet(bag) = {} THEN <<>>
    ELSE LET r == CHOOSE x \in BagToSet(bag) : \A y \in BagToSet(bag) :
                      IF desc THEN y.ts <= x.ts ELSE x.ts <= y.ts
         IN  <<r>> \o OrderByTs(bag (-) SetToBag({r}), desc)

\* LIMIT applied before OFFSET
Page_offset_last(rows, count, skip) ==
    LET limit == IF count = <<>> THEN DefaultLimit ELSE count[1]
        kept == SubSeq(rows, 1, IF limit < Len(rows) THEN limit ELSE Len(rows))
    IN  SubSeq(kept, (IF skip > 0 THEN skip ELSE 0) + 1, Len(kept))

\* LIMIT %s OFFSET %s, lines 245-254: the offset only when skip > 0
Page(rows, count, skip) ==
    LET limit == IF count = <<>> THEN DefaultLimit ELSE count[1]
        offset == IF skip > 0 THEN skip ELSE 0
        last == IF offset + limit < Len(rows) THEN offset + limit ELSE Len(rows)
    IN  SubSeq(rows, offset + 1, last)

\* utils.format_timestamp(ts.replace(tzinfo=pytz.UTC)): always with fraction
format_timestamp(ts) ==
    <<Digits[(ts \div 10) + 1], ".", Digits[(ts % 10) + 1]>> \o OffsetText(0)

\* the select of one topic and the list built from its cursor
SelectTopic(table, topic_id, start, end, order, count, skip) ==
    LET hit == {r \in BagToSet(table) :
                   r.topic_id = topic_id /\ TsFilter(r.ts, start, end)}
        rows == Page(OrderByTs([r \in hit |-> table[r]], order = "LAST_TO_FIRST"),
                     count, skip)
    IN  [i \in 1..Len(rows) |->
            <<format_timestamp(rows[i].ts), loads(rows[i].value_string)>>]

\* the key of a topic made only when the topic has rows
SetEntry_lazy(values, name, rows) ==
    IF rows = <<>> THEN values
    ELSE [n \in DOMAIN values \cup {name} |-> IF n = name THEN rows ELSE values[n]]

\* values[id_name_map[topic_id]] = [] and the appends that follow
SetEntry(values, name, rows) ==
    [n \in DOMAIN values \cup {name} |-> IF n = name THEN rows ELSE values[n]]

\* the loop over topic_ids, lines 258-282
RECURSIVE QueryLoop(_, _, _, _, _, _)
QueryLoop(ids, values, table, start, end, r) ==
    IF ids = <<>> THEN values
    ELSE QueryLoop(Tail(ids),
                   SetEntry(values, r.id_name_map[ids[1]],
                            SelectTopic(table, ids[1], start, end, r.order,
                                        r.count, r.skip)),
                   table, start, end, r)

\* args holds the start and the end parameter of the statements sent
NoResult == [done |-> FALSE, raised |-> "", values |-> <<>>, flag |-> "None",
             args |-> <<NoneParam, NoneParam>>]

query ==
    LET flag == LazyFlag
        start == QueryBound(req.start, flag)
        end == QueryBound(req.end, flag)
    IN
    /\ MICROSECOND_SUPPORT' = flag
    /\ qres' = IF LazyError # ""
               THEN [NoResult EXCEPT !.done = TRUE, !.raised = LazyError,
                                     !.flag = flag]
               ELSE IF req.topic_ids = <<>>
               THEN [NoResult EXCEPT !.done = TRUE, !.raised = "IndexError",
                                     !.flag = flag]
               ELSE [done |-> TRUE, raised |-> "",
                     values |-> QueryLoop(req.topic_ids, <<>>, data, start,
                                          end, req),
                     flag |-> flag, args |-> <<start, end>>]
    /\ UNCHANGED <<patternVars, version, tables, dataPrecise, meta_table,
                   topicsMetadataCol, op, aggCalls, writerVars, req, cres>>

(***************************************************************************)
(* Aggregation engine                                                      *)
(*                                                                         *)
(* An aggregate value is NULL or the quotient num / den.                   *)
(***************************************************************************)
Null == [null |-> TRUE, num |-> 0, den |-> 1]
Number(n) == [null |-> FALSE, num |-> n, den |-> 1]

\* agg_type.upper()
Upper(a) == IF a = "avg" THEN "AVG" ELSE a

\* the number the backend reads in a value_string
SqlNumber(text) == ToInt(text)

RECURSIVE SumOf(_)
SumOf(bag) ==
    IF BagToSet(bag) = {} THEN 0
    ELSE LET r == CHOOSE x \in BagToSet(bag) : TRUE
         IN  SqlNumber(r.value_string) + SumOf(bag (-) SetToBag({r}))

\* SELECT agg(value_string), count(value_string) over the rows of a bag:
\* always one row, whose aggregate is NULL when no row matches (COUNT: 0)
AggregateRow(bag, agg) ==
    LET n == BagCardinality(bag)
        nums == {SqlNumber(r.value_string) : r \in BagToSet(bag)}
        value ==
            IF agg = "COUNT" THEN Number(n)
            ELSE IF n = 0 THEN Null
            ELSE IF agg = "SUM" THEN Number(SumOf(bag))
            ELSE IF agg = "AVG" THEN [null |-> FALSE, num |-> SumOf(bag), den |-> n]
            ELSE IF agg = "MIN"
                 THEN Number(CHOOSE x \in nums : \A y \in nums : x <= y)
                 ELSE Number(CHOOSE x \in nums : \A y \in nums : y <= x)
    IN  <<value, n>>

\* start (or end) of collect_aggregate as appended to args, lines 532-544:
\* any flag but True sends the text
AggregateBound(b, flag) ==
    IF b = <<>> THEN NoneParam
    ELSE IF flag = "True" THEN DtParam(b[1])
    ELSE StrParam(DropFraction(isoformat(b[1])))

NoAggregate == [done |-> FALSE, raised |-> "", flag |-> "None",
                result |-> <<Number(0), 0>>,
                args |-> <<NoneParam, NoneParam>>]

collect_aggregate ==
    LET valid == Upper(req.agg_type) \in {"AVG", "MIN", "MAX", "COUNT", "SUM"}
        \* the probe runs only inside 'if start is not None'
        probes == valid /\ req.topic_ids # <<>> /\ req.start # <<>>
        flag == IF probes THEN LazyFlag ELSE MICROSECOND_SUPPORT
        start == AggregateBound(req.start, flag)
        end == AggregateBound(req.end, flag)
        ids == {req.topic_ids[i] : i \in 1..Len(req.topic_ids)}
        hit == {r \in BagToSet(data) :
                   /\ r.topic_id \in ids
                   /\ req.start # <<>> => r.ts >= SqlTime(start)
                   /\ req.end # <<>> => r.ts < SqlTime(end)}
        rows == <<AggregateRow([r \in hit |-> data[r]], Upper(req.agg_type))>>
    IN
    /\ MICROSECOND_SUPPORT' = flag
    /\ cres' = IF ~valid
               THEN [NoAggregate EXCEPT !.done = TRUE, !.raised = "ValueError",
                                        !.flag = flag]
               ELSE IF req.topic_ids = <<>>
               THEN [NoAggregate EXCEPT !.done = TRUE, !.raised = "IndexError",
                                        !.flag = flag]
               ELSE IF probes /\ LazyError # ""
               THEN [NoAggregate EXCEPT !.done = TRUE, !.raised = LazyError,
                                        !.flag = flag]
               ELSE [done |-> TRUE, raised |-> "", flag |-> flag,
                     result |-> IF rows # <<>> THEN rows[1]
                                ELSE <<Number(0), 0>>,
                     args |-> <<start, end>>]
    /\ UNCHANGED <<patternVars, version, tables, dataPrecise, meta_table,
                   topicsMetadataCol, op, aggCalls, writerVars, req, qres>>

(***************************************************************************)
(* Topic registry: topics by pattern                                       *)
(***************************************************************************)
\* the statement text up to the quote that opens the pattern
SelectPrefix ==
    <<"SELECT topic_id, topic_name FROM topics WHERE lower(topic_name) REGEXP lower(">>

\* the pattern as the concatenation of lines 470-471 puts it in the text
Interpolate(pattern) == pattern

\* q of query_topics_by_pattern
PatternStatement(pattern) ==
    SelectPrefix \o <<"'">> \o Interpolate(pattern) \o <<"'", ")", ";">>

\* the statement is sent with no parameters; the rows the backend answers
\* with become the id_map
query_topics_by_pattern ==
    /\ q' = PatternStatement(topic_pattern)
    /\ UNCHANGED <<schemaVars, writerVars, queryVars, topic_pattern>>

\* how the backend reads a string literal whose text starts at position i:
\* the position of the quote that closes it (a doubled quote is a quote of
\* the string), 0 when nothing closes it
RECURSIVE LiteralEnd(_, _)
LiteralEnd(s, i) ==
    IF i > Len(s) THEN 0
    ELSE IF s[i] # "'" THEN LiteralEnd(s, i + 1)
    ELSE IF i < Len(s) /\ s[i + 1] = "'" THEN LiteralEnd(s, i + 2)
    ELSE i

\* the string a literal text stands for
RECURSIVE Unquote(_)
Unquote(s) ==
    IF s = <<>> THEN <<>>
    ELSE IF Len(s) >= 2 /\ s[1] = "'" /\ s[2] = "'"
         THEN <<"'">> \o Unquote(SubSeq(s, 3, Len(s)))
         ELSE <<s[1]>> \o Unquote(Tail(s))

(***************************************************************************)
(* The adapter and its schema: the state after __init__, on any backend    *)
(* version and any set of tables left by an earlier installation           *)
(***************************************************************************)
VersionText(major, minor, patch, suffix) ==
    ToText(major) \o <<".">> \o ToText(minor) \o <<".">> \o ToText(patch)
        \o suffix

Majors == {4, 5, 8, 10}
Minors == {0, 5, 6, 7}
Patches == {3, 4, 9, 21}
Suffixes == {<<>>, <<"-", "l", "o", "g">>}

\* the last one has no third number: the pattern does not match it
Versions ==
    {VersionText(a, b, c, x) : a \in Majors, b \in Minors, c \in Patches,
                               x \in Suffixes}
    \cup {<<"5", ".", "6">>}

\* historian tables of: no installation, the schema setup_historian_tables
\* creates, the legacy schema with its own meta table, a half made schema
HistorianLayouts ==
    {[tables |-> {}, col |-> FALSE],
     [tables |-> {data_table, topics_table}, col |-> TRUE],
     [tables |-> {data_table, topics_table, legacy_meta_table}, col |-> FALSE],
     [tables |-> {topics_table}, col |-> TRUE]}

SchemaInit ==
    /\ version \in Versions
    /\ MICROSECOND_SUPPORT = "None"
    /\ \E h \in HistorianLayouts, a \in SUBSET {agg_topics_table, agg_meta_table} :
          /\ tables = h.tables \cup a
          /\ topicsMetadataCol = h.col
    /\ dataPrecise = FALSE
    /\ meta_table = legacy_meta_table
    /\ op = NoOp
    /\ aggCalls = 0

\* no batch scope is open and nothing has been written
WriterIdle ==
    /\ data = EmptyBag
    /\ metadata = EmptyBag
    /\ pc = "idle"
    /\ records = <<>>
    /\ mpc = "idle"
    /\ meta = <<>>
    /\ scopeEnd = NoScope
    /\ hist = [last |-> [k \in Topics \X WriteTicks |-> <<>>], over |-> FALSE]

PatternIdle ==
    /\ topic_pattern = <<>>
    /\ q = <<>>

QueryIdle ==
    /\ req = [topic_ids |-> <<>>, id_name_map |-> <<>>, start |-> <<>>,
              end |-> <<>>, skip |-> 0, count |-> <<>>,
              order |-> "FIRST_TO_LAST", agg_type |-> "AVG"]
    /\ qres = NoResult
    /\ cres = NoAggregate

Init == SchemaInit /\ WriterIdle /\ QueryIdle /\ PatternIdle

Next ==
    \/ init_microsecond_support
    \/ setup_historian_tables
    \/ setup_aggregate_historian_tables
    \/ \E t \in AggTypes, p \in AggPeriods : create_aggregate_store(t, p)

Spec == Init /\ [][Next]_vars

(***************************************************************************)
(* The bulk writer on the schema setup_historian_tables has created, on a  *)
(* backend with and without sub-second precision                           *)
(***************************************************************************)
WriterInit ==
    /\ \E precise \in BOOLEAN :
          /\ dataPrecise = precise
          /\ MICROSECOND_SUPPORT = IF precise THEN "True" ELSE "False"
          /\ version = IF precise THEN VersionText(8, 0, 21, <<>>)
                       ELSE VersionText(5, 5, 9, <<>>)
    /\ tables = {data_table, topics_table}
    /\ topicsMetadataCol = TRUE
    /\ meta_table = topics_table
    /\ op = NoOp
    /\ aggCalls = 0
    /\ WriterIdle
    /\ QueryIdle
    /\ PatternIdle

WriterNext ==
    \/ bulk_insert_enter
    \/ \E ts \in WriteTicks, t \in Topics, v \in Values : insert_data(ts, t, v)
    \/ bulk_insert_exit
    \/ bulk_insert_raise

SpecWriter == WriterInit /\ [][WriterNext]_vars

(***************************************************************************)
(* The two batch scopes together, entered, filled and left in any order,   *)
(* each by the end of its body or by an error of its body                  *)
(***************************************************************************)
ScopesNext ==
    \/ bulk_insert_enter
    \/ \E v \in Values : insert_data(0, 1, v)
    \/ bulk_insert_exit
    \/ bulk_insert_raise
    \/ bulk_insert_meta_enter
    \/ \E t \in Topics, m \in MetaValues : insert_meta(t, m)
    \/ bulk_insert_meta_exit
    \/ bulk_insert_meta_raise

SpecScopes == WriterInit /\ [][ScopesNext]_vars

(***************************************************************************)
(* query on any data table the bulk writer can leave, with any arguments   *)
(***************************************************************************)
MaxRows == 2
MaxSkip == 1
MaxCount == 2

ReadTicks == {0, 5, 10, 15}

\* the rows the data table can hold on a backend with the given precision
StoredRows(precise) ==
    {[ts |-> StoreTs(t, precise), topic_id |-> i, value_string |-> dumps(v)] :
        t \in ReadTicks, i \in Topics, v \in Values}

\* the data tables of at most MaxRows rows that respect UNIQUE(topic_id, ts)
DataTables(precise) ==
    {SetToBag(S) : S \in {T \in SUBSET StoredRows(precise) :
                             /\ Cardinality(T) <= MaxRows
                             /\ \A r, o \in T : SameKey(r, o) => r = o}}

BoundTicks == {0, 5, 7, 10, 15}

Datetimes ==
    {[wall |-> t, off |-> 0] : t \in BoundTicks} \cup {[wall |-> 0, off |-> -1]}

Optional(S) == {<<>>} \cup {<<x>> : x \in S}

TopicLists == {<<>>, <<1>>, <<2>>, <<1, 2>>, <<2, 1>>}

IdNameMap == [t \in Topics |-> IF t = 1 THEN "t1" ELSE "t2"]

\* the adapter after capability detection, on the schema it has created
ReaderInit ==
    /\ \E precise \in BOOLEAN :
          /\ dataPrecise = precise
          /\ MICROSECOND_SUPPORT = IF precise THEN "True" ELSE "False"
          /\ version = IF precise THEN VersionText(8, 0, 21, <<>>)
                       ELSE VersionText(5, 5, 9, <<>>)
          /\ data \in DataTables(precise)
    /\ tables = {data_table, topics_table}
    /\ topicsMetadataCol = TRUE
    /\ meta_table = topics_table
    /\ op = NoOp
    /\ aggCalls = 0
    /\ metadata = EmptyBag
    /\ pc = "idle"
    /\ records = <<>>
    /\ mpc = "idle"
    /\ meta = <<>>
    /\ scopeEnd = NoScope
    /\ hist = [last |-> [k \in Topics \X WriteTicks |-> <<>>], over |-> FALSE]
    /\ qres = NoResult
    /\ cres = NoAggregate
    /\ PatternIdle

QueryInit ==
    /\ ReaderInit
    /\ req \in [topic_ids : TopicLists, id_name_map : {IdNameMap},
                 start : Optional(Datetimes), end : Optional(Datetimes),
                 skip : 0..MaxSkip, count : Optional(1..MaxCount),
                 order : {"FIRST_TO_LAST", "LAST_TO_FIRST"},
                 agg_type : {"AVG"}]

QueryNext == query

SpecQuery == QueryInit /\ [][QueryNext]_vars

(***************************************************************************)
(* collect_aggregate and query on the same table with the same arguments   *)
(***************************************************************************)
AggNames == {"AVG", "MIN", "MAX", "COUNT", "SUM", "avg", "STD"}

ComputeInit ==
    /\ ReaderInit
    /\ req \in [topic_ids : TopicLists, id_name_map : {IdNameMap},
                 start : Optional(Datetimes), end : Optional(Datetimes),
                 skip : {0}, count : {<<>>}, order : {"FIRST_TO_LAST"},
                 agg_type : AggNames]

ComputeNext == query \/ collect_aggregate

SpecCompute == ComputeInit /\ [][ComputeNext]_vars

(***************************************************************************)
(* A freshly constructed adapter, its flag still None, on the schema an    *)
(* earlier run has created: the operations that depend on the timestamp    *)
(* precision, in any order                                                 *)
(***************************************************************************)
FreshInit ==
    /\ \E precise \in BOOLEAN :
          /\ dataPrecise = precise
          /\ version = IF precise THEN VersionText(8, 0, 21, <<>>)
                       ELSE VersionText(5, 5, 9, <<>>)
          /\ data \in {d \in DataTables(precise) : BagCardinality(d) <= 1}
    /\ MICROSECOND_SUPPORT = "None"
    /\ tables = {data_table, topics_table}
    /\ topicsMetadataCol = TRUE
    /\ meta_table = topics_table
    /\ op = NoOp
    /\ aggCalls = 0
    /\ metadata = EmptyBag
    /\ pc = "idle"
    /\ records = <<>>
    /\ mpc = "idle"
    /\ meta = <<>>
    /\ scopeEnd = NoScope
    /\ hist = [last |-> [k \in Topics \X WriteTicks |-> <<>>], over |-> FALSE]
    /\ qres = NoResult
    /\ cres = NoAggregate
    /\ PatternIdle
    /\ req \in [topic_ids : {<<1>>, <<1, 2>>}, id_name_map : {IdNameMap},
                 start : Optional(Datetimes), end : Optional(Datetimes),
                 skip : {0}, count : {<<>>}, order : {"FIRST_TO_LAST"},
                 agg_type : {"AVG", "COUNT"}]

FreshNext ==
    \/ init_microsecond_support
    \/ setup_historian_tables
    \/ \E t \in AggTypes, p \in AggPeriods : create_aggregate_store(t, p)
    \/ query
    \/ collect_aggregate

SpecFresh == FreshInit /\ [][FreshNext]_vars

(***************************************************************************)
(* query_topics_by_pattern with any pattern of the caller                  *)
(***************************************************************************)
MaxPattern == 3

PatternChars == {"a", ".", "'", ")", ";"}

Patterns ==
    UNION {[1..n -> PatternChars] : n \in 0..MaxPattern}

PatternInit ==
    /\ \E precise \in BOOLEAN :
          /\ dataPrecise = precise
          /\ MICROSECOND_SUPPORT = IF precise THEN "True" ELSE "False"
          /\ version = IF precise THEN VersionText(8, 0, 21, <<>>)
                       ELSE VersionText(5, 5, 9, <<>>)
    /\ tables = {data_table, topics_table}
    /\ topicsMetadataCol = TRUE
    /\ meta_table = topics_table
    /\ op = NoOp
    /\ aggCalls = 0
    /\ WriterIdle
    /\ QueryIdle
    /\ topic_pattern \in Patterns
    /\ q = <<>>

PatternNext == query_topics_by_pattern

SpecPattern == PatternInit /\ [][PatternNext]_vars

(***************************************************************************)
(* Properties                                                              *)
(***************************************************************************)
\* the rows of the data table with topic_id and ts of the key k, counted
\* with their multiplicity
RowsOfKey(k) ==
    LET rs == {r \in BagToSet(data) : r.topic_id = k[1] /\ r.ts = k[2]}
    IN  BagCardinality([r \in rs |-> data[r]])

\* C1: after any sequence of flushed point batches the data table holds at
\* most one row per (topic_id, timestamp) pair, none for a pair never
\* written, and the row of a written pair holds the value of the last write
\* to the pair, in the same batch or in an earlier one.
C1_OneRowPerPairLastValue ==
    /\ \A r \in BagToSet(data) : <<r.topic_id, r.ts>> \in DOMAIN hist.last
    /\ \A k \in DOMAIN hist.last :
          /\ RowsOfKey(k) <= 1
          /\ hist.last[k] = <<>> => RowsOfKey(k) = 0
          /\ hist.last[k] # <<>> =>
                [ts |-> k[2], topic_id |-> k[1], value_string |-> hist.last[k]]
                    \in BagToSet(data)

\* a flushed write has replaced a different value of its pair
C1_Witness ==
    /\ hist.over
    /\ pc = "idle"
    /\ scopeEnd = [scope |-> "data", raised |-> FALSE, flushed |-> TRUE]

\* C2: whenever a bulk_insert or bulk_insert_meta scope that has accumulated
\* at least one record is left, by the end of the body or by an error the
\* body raises, the flush statement of the scope has been issued.
C2_FlushOnEveryExit ==
    [][/\ (pc = "body" /\ pc' = "idle" /\ records # <<>>)
            => (scopeEnd'.scope = "data" /\ scopeEnd'.flushed)
       /\ (mpc = "body" /\ mpc' = "idle" /\ meta # <<>>)
            => (scopeEnd'.scope = "meta" /\ scopeEnd'.flushed)]_vars

\* C7: for every version major.minor.patch the backend reports, the probe
\* leaves the flag "False" exactly when major < 5, or major = 5 and
\* minor < 6, or major = 5 and minor = 6 and patch < 4, and "True"
\* otherwise; 8.0.21, 5.6.3, 5.6.4, 5.5.9 give True, False, True, False.
C7_DecisionTable ==
    MICROSECOND_SUPPORT # "None" =>
        /\ \A a \in Majors, b \in Minors, c \in Patches, x \in Suffixes :
              version = VersionText(a, b, c, x) =>
                  MICROSECOND_SUPPORT =
                      IF \/ a < 5
                         \/ a = 5 /\ b < 6
                         \/ a = 5 /\ b = 6 /\ c < 4
                      THEN "False" ELSE "True"
        /\ version = <<"8", ".", "0", ".", "2", "1">> => MICROSECOND_SUPPORT = "True"
        /\ version = <<"5", ".", "6", ".", "3">> => MICROSECOND_SUPPORT = "False"
        /\ version = <<"5", ".", "6", ".", "4">> => MICROSECOND_SUPPORT = "True"
        /\ version = <<"5", ".", "5", ".", "9">> => MICROSECOND_SUPPORT = "False"

\* the probe has decided the boundary version 5.6.4
C7_Witness ==
    /\ version = <<"5", ".", "6", ".", "4">>
    /\ op.name = "init_microsecond_support"
    /\ MICROSECOND_SUPPORT = "True"

\* C9: when setup_aggregate_historian_tables returns, the aggregate topics
\* table and the aggregate meta table both exist, the tables it created are
\* exactly those that were absent, and a second call creates nothing.
C9_AggregateSchemaIdempotent ==
    op.name = "setup_aggregate_historian_tables" =>
        /\ Created(op.stmts) \cap op.before = {}
        /\ op.raised = "" =>
              /\ {agg_topics_table, agg_meta_table} \subseteq tables
              /\ Created(op.stmts) =
                    {agg_topics_table, agg_meta_table} \ op.before
        /\ aggCalls >= 2 => Created(op.stmts) = {}

\* the requested topic ids
Requested == {req.topic_ids[i] : i \in 1..Len(req.topic_ids)}

\* the tick and the value of an element of a returned list
ReturnedTick(e) == 10 * DigitVal(e[1][1]) + DigitVal(e[1][3])

\* the instant a datetime names, in ticks of UTC
Instant(d) == d.wall - 10 * d.off

\* a bound as query uses it: in UTC, and in whole seconds on a backend
\* without sub-second precision
UsedBound(d) ==
    IF qres.flag = "True" THEN Instant(d) ELSE Instant(d) - (Instant(d) % 10)

\* C3: the map query returns has as its keys exactly the names of the
\* requested topic ids; every element of a list is a stored point of its
\* topic, so a topic without points is mapped to the empty list.
C3_KeySetIsRequested ==
    (qres.done /\ qres.raised = "") =>
        /\ DOMAIN qres.values = {req.id_name_map[t] : t \in Requested}
        /\ \A t \in Requested :
              LET list == qres.values[req.id_name_map[t]]
              IN  /\ \A i \in 1..Len(list) :
                        \E r \in BagToSet(data) :
                            /\ r.topic_id = t
                            /\ r.ts = ReturnedTick(list[i])
                            /\ r.value_string = dumps(list[i][2])
                  /\ (\A r \in BagToSet(data) : r.topic_id # t) => list = <<>>

\* two topics were requested, one with points and one without
C3_Witness ==
    /\ qres.done /\ qres.raised = ""
    /\ req.topic_ids = <<1, 2>>
    /\ qres.values["t1"] # <<>>
    /\ qres.values["t2"] = <<>>
    /\ \A r \in BagToSet(data) : r.topic_id = 1

\* the window claim for given values s and e of the two bounds
WindowClaim(s, e, exact) ==
    \A t \in Requested :
        LET list == qres.values[req.id_name_map[t]]
        IN  /\ \A i \in 1..Len(list) :
                  \/ s <= ReturnedTick(list[i]) /\ ReturnedTick(list[i]) < e
                  \/ s = e /\ ReturnedTick(list[i]) = s /\ exact
            /\ (exact /\ req.skip = 0) =>
                  \A r \in BagToSet(data) :
                      (r.topic_id = t /\ r.ts = s) =>
                          \E i \in 1..Len(list) : ReturnedTick(list[i]) = s

\* C4 as stated: with both bounds given, on either kind of backend, when
\* start < end every returned ts has start <= ts < end, and when
\* start = end exactly the rows with ts = start are returned.
C4_HalfOpenWindow ==
    (qres.done /\ qres.raised = "" /\ req.start # <<>> /\ req.end # <<>>) =>
        LET s == Instant(req.start[1])
            e == Instant(req.end[1])
        IN  s <= e => WindowClaim(s, e, s = e)

\* C4 as amended: with start' and end' the bounds in UTC, truncated to whole
\* seconds on a backend without sub-second precision, when start < end
\* every returned ts has start' <= ts < end' or ts = start' = end', and
\* when start = end exactly the rows with ts = start' are returned.
C4_HalfOpenWindowOfUsedBounds ==
    (qres.done /\ qres.raised = "" /\ req.start # <<>> /\ req.end # <<>>) =>
        LET s == Instant(req.start[1])
            e == Instant(req.end[1])
            su == UsedBound(req.start[1])
            eu == UsedBound(req.end[1])
        IN  /\ s < e => \A t \in Requested :
                  \A i \in 1..Len(qres.values[req.id_name_map[t]]) :
                      LET ts == ReturnedTick(qres.values[req.id_name_map[t]][i])
                      IN  (su <= ts /\ ts < eu) \/ (ts = su /\ ts = eu)
            /\ s = e => WindowClaim(su, eu, TRUE)

\* without sub-second precision, bounds .5 and 1.5 return the point of
\* second 0
C4_Witness ==
    /\ qres.done /\ qres.raised = "" /\ qres.flag = "False"
    /\ req.start = <<[wall |-> 5, off |-> 0]>>
    /\ req.end = <<[wall |-> 15, off |-> 0]>>
    /\ req.topic_ids = <<1>>
    /\ Len(qres.values["t1"]) = 1
    /\ ReturnedTick(qres.values["t1"][1]) = 0

\* the two bounds are given and query takes them as equal: they name the
\* same instant or, without sub-second precision, the same second with
\* both or neither having a fraction
ExactMatch ==
    /\ req.start # <<>>
    /\ req.end # <<>>
    /\ UsedBound(req.start[1]) = UsedBound(req.end[1])
    /\ \/ qres.flag = "True"
       \/ (Instant(req.start[1]) % 10 = 0) <=> (Instant(req.end[1]) % 10 = 0)

\* the points of topic t inside the window of the request
WindowPoints(t) ==
    {r \in BagToSet(data) :
        /\ r.topic_id = t
        /\ IF ExactMatch THEN r.ts = UsedBound(req.start[1])
           ELSE /\ req.start # <<>> => UsedBound(req.start[1]) <= r.ts
                /\ req.end # <<>> => r.ts < UsedBound(req.end[1])}

\* r comes before q in the requested order
Before(r, o) ==
    IF req.order = "LAST_TO_FIRST" THEN r.ts > o.ts ELSE r.ts < o.ts

C6_EmptyWindowIsZero ==
    (cres.done /\ cres.raised = "" /\ cres.result[2] = 0) =>
        cres.result = <<Number(0), 0>>

\* the aggregate of the values of a list query returned
RECURSIVE SumOfList(_)
SumOfList(list) ==
    IF list = <<>> THEN 0 ELSE list[1][2] + SumOfList(Tail(list))

AggregateOfList(list, agg) ==
    LET nums == {list[i][2] : i \in 1..Len(list)}
    IN  IF agg = "COUNT" THEN Number(Len(list))
        ELSE IF list = <<>> THEN Null
        ELSE IF agg = "SUM" THEN Number(SumOfList(list))
        ELSE IF agg = "AVG"
             THEN [null |-> FALSE, num |-> SumOfList(list), den |-> Len(list)]
        ELSE IF agg = "MIN"
             THEN Number(CHOOSE x \in nums : \A y \in nums : x <= y)
             ELSE Number(CHOOSE x \in nums : \A y \in nums : y <= x)

\* C10: for the same single topic id, the same bounds and the same backend
\* precision, collect_aggregate counts and aggregates exactly the rows that
\* query returns when its limit is not reached.
C10_AggregatesTheQueriedRows ==
    (/\ qres.done /\ qres.raised = ""
     /\ cres.done /\ cres.raised = ""
     /\ qres.flag = cres.flag
     /\ Len(req.topic_ids) = 1) =>
        LET list == qres.values[req.id_name_map[req.topic_ids[1]]]
        IN  Len(list) < DefaultLimit =>
                /\ cres.result[2] = Len(list)
                /\ Len(list) > 0 =>
                      cres.result[1] = AggregateOfList(list, Upper(req.agg_type))

\* the parameters of a finished call are of the kind the flag value of the
\* backend version asks for: a datetime when it supports microseconds, a
\* text when it does not
ActsOnDetectedFlag(res) ==
    /\ res.flag = ProbeFlag(version)
    /\ \A i \in 1..2 :
          res.args[i].kind # "None" =>
              (res.args[i].kind = "datetime") = (ProbeFlag(version) = "True")

\* C11: on a freshly constructed adapter, in every sequence of operations,
\* each operation whose result depends on the timestamp precision has run
\* the detection before it acted: after setup_historian_tables or
\* create_aggregate_store the flag is the one the backend version gives and
\* the ts column created is of that precision; a finished query, and a
\* finished collect_aggregate with a start bound, an end bound or both,
\* acted on the flag the backend version gives and never on None as if it
\* were False.
C11_DetectsBeforeActing ==
    /\ (op.name \in {"setup_historian_tables", "create_aggregate_store"}
            /\ op.raised = "") =>
          /\ MICROSECOND_SUPPORT = ProbeFlag(version)
          /\ \A i \in 1..Len(op.stmts) :
                (op.stmts[i].verb = "CREATE TABLE" /\ op.stmts[i].col # "") =>
                    op.stmts[i].col = TsColumn(ProbeFlag(version))
    /\ (qres.done /\ qres.raised = "") => ActsOnDetectedFlag(qres)
    /\ (cres.done /\ cres.raised = ""
            /\ (req.start # <<>> \/ req.end # <<>>)) =>
          ActsOnDetectedFlag(cres)

\* a timestamp text with its fractional-second suffix removed: what is
\* before the last '.', and the whole text when it has no '.'
FractionRemoved(text) ==
    IF rfind(text, ".") < 0 THEN text ELSE SubSeq(text, 1, rfind(text, "."))

\* C12: on a backend without sub-second precision, each start or end bound
\* given to query, with a fraction of a second or without one, is used in
\* the time filter as its UTC timestamp text with only the fractional-second
\* suffix removed; a bound without a fraction loses no character.
C12_OnlyFractionRemoved ==
    (qres.done /\ qres.raised = "" /\ qres.flag = "False") =>
        \A i \in 1..2 :
            LET b == IF i = 1 THEN req.start ELSE req.end
            IN  b # <<>> =>
                    qres.args[i] =
                        StrParam(FractionRemoved(isoformat(astimezone_utc(b[1]))))

\* C8: whatever the pattern, the statement query_topics_by_pattern sends is
\* the one SELECT over the topics table in which the pattern is the operand
\* of REGEXP and nothing else: the quote that closes the operand is the one
\* the code wrote, the operand reads as the pattern, and the text after it
\* is the fixed end of the statement.
C8_PatternIsOnlyTheOperand ==
    q # <<>> =>
        LET close == LiteralEnd(q, 3)
        IN  /\ close > 0
            /\ Unquote(SubSeq(q, 3, close - 1)) = topic_pattern
            /\ SubSeq(q, close + 1, Len(q)) = <<")", ";">>

====
